---- MODULE Spec2Model ----
(***************************************************************************)
(* Workspaces web API of beaker                                            *)
(* (app/background-process/web-apis/workspaces.js): the operations that    *)
(* reconcile a local folder with a dat archive.                            *)
(*                                                                         *)
(* Strings are sequences of one-character strings, so that startsWith,     *)
(* endsWith, charAt, slice, split and path.normalize are computed as the   *)
(* JavaScript computes them.  A tree (scoped fs or archive) is a function  *)
(* from the paths of a small universe to nodes.                            *)
(***************************************************************************)
EXTENDS Integers, Sequences, FiniteSets, TLC

\* ------------------------------------------------------------ bounds
\* calls one caller makes in one behaviour
MaxCalls == 1
\* notifications the local tree delivers to one subscription
MaxEvents == 2

\* ------------------------------------------------------------ constants
MAX_DIFF_SIZE == 100000
ARCHIVE_TIMEOUT_MS == 3000

\* ------------------------------------------------------------ strings
SEP == "/"
LF == "\n"
NUL == "0"

StartsWith(s, pre) == Len(pre) <= Len(s) /\ SubSeq(s, 1, Len(pre)) = pre

EndsWith(s, suf) ==
  Len(suf) <= Len(s) /\ SubSeq(s, Len(s) - Len(suf) + 1, Len(s)) = suf

\* String.prototype.charAt: the empty string past the end
CharAt(s, i) == IF i >= 0 /\ i < Len(s) THEN s[i + 1] ELSE ""

\* s.slice(0, -1)
DropLast(s) == SubSeq(s, 1, Len(s) - 1)

RECURSIVE SplitFrom(_, _, _, _)
SplitFrom(s, sep, i, cur) ==
  IF i > Len(s) THEN <<cur>>
  ELSE IF s[i] = sep THEN <<cur>> \o SplitFrom(s, sep, i + 1, <<>>)
  ELSE SplitFrom(s, sep, i + 1, Append(cur, s[i]))

\* String.prototype.split with a one-character separator
Split(s, sep) == SplitFrom(s, sep, 1, <<>>)

RECURSIVE Join(_, _)
\* Array.prototype.join
Join(parts, sep) ==
  IF Len(parts) = 0 THEN <<>>
  ELSE IF Len(parts) = 1 THEN parts[1]
  ELSE parts[1] \o <<sep>> \o Join(Tail(parts), sep)

\* Array.prototype.filter(Boolean) on strings: the empty string is falsy
FilterBoolean(parts) == SelectSeq(parts, LAMBDA x: x # <<>>)

RECURSIVE MapSeq(_, _)
MapSeq(F(_), s) == IF s = <<>> THEN <<>> ELSE <<F(Head(s))>> \o MapSeq(F, Tail(s))

RECURSIVE Flatten(_)
Flatten(ss) == IF ss = <<>> THEN <<>> ELSE Head(ss) \o Flatten(Tail(ss))

Reverse(s) == [i \in 1..Len(s) |-> s[Len(s) + 1 - i]]

Range(s) == {s[i] : i \in 1..Len(s)}

\* ------------------------------------------------------------ path.normalize
DOT == <<".">>
DOTDOT == <<".", ".">>

RECURSIVE NormalizeSegs(_, _, _)
\* posix normalizeString: drops empty and "." segments, resolves ".."
NormalizeSegs(segs, acc, isAbsolute) ==
  IF segs = <<>> THEN acc
  ELSE LET h == Head(segs) IN
    IF h = <<>> \/ h = DOT THEN NormalizeSegs(Tail(segs), acc, isAbsolute)
    ELSE IF h = DOTDOT THEN
      IF acc # <<>> /\ acc[Len(acc)] # DOTDOT
        THEN NormalizeSegs(Tail(segs), DropLast(acc), isAbsolute)
      ELSE IF isAbsolute THEN NormalizeSegs(Tail(segs), acc, isAbsolute)
      ELSE NormalizeSegs(Tail(segs), Append(acc, h), isAbsolute)
    ELSE NormalizeSegs(Tail(segs), Append(acc, h), isAbsolute)

\* path.normalize (posix)
Normalize(p) ==
  IF Len(p) = 0 THEN DOT
  ELSE LET isAbsolute == p[1] = SEP
           trailing == p[Len(p)] = SEP
           body == Join(NormalizeSegs(Split(p, SEP), <<>>, isAbsolute), SEP)
           b1 == IF body = <<>> /\ ~isAbsolute THEN DOT ELSE body
           b2 == IF b1 # <<>> /\ trailing THEN b1 \o <<SEP>> ELSE b1
       IN IF isAbsolute THEN <<SEP>> \o b2 ELSE b2

\* ------------------------------------------------------------ JavaScript values
JUndef == [t |-> "undefined", b |-> FALSE, s |-> <<>>]
JBool(b) == [t |-> "boolean", b |-> b, s |-> <<>>]
JStr(s) == [t |-> "string", b |-> FALSE, s |-> s]
JNum == [t |-> "number", b |-> FALSE, s |-> <<>>]

\* ------------------------------------------------------------ trees
\* The paths a tree of the model can hold, in lexicographic order (the order
\* in which a directory listing is walked).
P_DATIGNORE == <<"/", ".", "d", "a", "t", "i", "g", "n", "o", "r", "e">>
P_GIT == <<"/", ".", "g", "i", "t">>
P_D == <<"/", "d">>
P_DX == <<"/", "d", "/", "x">>
P_PNG == <<"/", "p", ".", "p", "n", "g">>
P_T == <<"/", "t", ".", "m", "d">>
PathOrder == <<P_DATIGNORE, P_GIT, P_D, P_DX, P_PNG, P_T>>
Paths == Range(PathOrder)
ROOT == <<SEP>>

NoNode == [type |-> "none", data |-> <<>>, size |-> 0]
DirNode == [type |-> "dir", data |-> <<>>, size |-> 0]
FileNode(data, size) == [type |-> "file", data |-> data, size |-> size]
TextFile(data) == FileNode(data, Len(data))

\* path.dirname of an absolute, normalized path
Dirname(p) ==
  LET segs == FilterBoolean(Split(p, SEP)) IN
  IF Len(segs) <= 1 THEN ROOT ELSE <<SEP>> \o Join(DropLast(segs), SEP)

\* A tree resolves the path it is given against its root.
TreePath(p) == Normalize(<<SEP>> \o p)

\* fs.stat through the stat helper: the node, or null (NoNode) on failure
stat(fs, filepath) ==
  LET q == TreePath(filepath) IN IF q \in Paths THEN fs[q] ELSE NoNode

\* the readFile helper: the content, or the empty string on failure
readFile(fs, filepath) ==
  LET st == stat(fs, filepath) IN IF st.type = "file" THEN st.data ELSE <<>>

\* the names a directory holds, sorted
Names(fs, dir) ==
  SelectSeq(PathOrder, LAMBDA q: Dirname(q) = dir /\ fs[q].type # "none")

\* ------------------------------------------------------------ ignore rules
GLOBSTAR == <<"*", "*", "/">>
METADATA_RULES == << <<"/", ".", "g", "i", "t">>, <<"/", ".", "d", "a", "t">> >>

PrefixRule(rule) == IF ~StartsWith(rule, <<SEP>>) THEN GLOBSTAR \o rule ELSE rule

\* (variant) only the rules of the file, without the two fixed ones
readDatIgnoreFileOnly(fs) ==
  LET rulesRaw == readFile(fs, <<".", "d", "a", "t", "i", "g", "n", "o", "r", "e">>)
  IN MapSeq(Normalize, MapSeq(PrefixRule, FilterBoolean(Split(rulesRaw, LF))))

readDatIgnore(fs) ==
  LET rulesRaw == readFile(fs, <<".", "d", "a", "t", "i", "g", "n", "o", "r", "e">>)
  IN MapSeq(Normalize,
            MapSeq(PrefixRule, FilterBoolean(Split(rulesRaw, LF))) \o METADATA_RULES)

\* One glob against a path: a rule that starts with the any-depth wildcard
\* matches its remainder at any depth, any other rule matches literally.
GlobMatch(rule, path) ==
  IF StartsWith(rule, GLOBSTAR)
    THEN LET rest == SubSeq(rule, 4, Len(rule)) IN
         path = rest \/ EndsWith(path, <<SEP>> \o rest)
    ELSE path = rule

anymatch(rules, path) == \E i \in 1..Len(rules) : GlobMatch(rules[i], path)

\* ------------------------------------------------------------ path scope
\* (variant) without the test for a parent folder of the target
TargetHitNoParent(targetPath, filepath) ==
  \/ /\ EndsWith(targetPath, <<SEP>>)
     /\ \/ filepath = DropLast(targetPath)
        \/ StartsWith(filepath, targetPath)
  \/ /\ ~EndsWith(targetPath, <<SEP>>)
     /\ filepath = targetPath

\* The body of the loop of makeDiffFilterByPaths for one target path.
TargetHit(targetPath, filepath) ==
  \/ /\ EndsWith(targetPath, <<SEP>>)
     /\ \/ filepath = DropLast(targetPath)
        \/ StartsWith(filepath, targetPath)
  \/ /\ ~EndsWith(targetPath, <<SEP>>)
     /\ filepath = targetPath
  \/ /\ StartsWith(targetPath, filepath)
     /\ CharAt(targetPath, Len(filepath)) = "/"

\* makeDiffFilterByPaths(targetPaths)(filepath): TRUE excludes the path
makeDiffFilterByPaths(targetPaths, filepath) ==
  LET tps == MapSeq(Normalize, targetPaths) IN
  ~ \E i \in 1..Len(tps) : TargetHit(tps[i], filepath)

\* The filter of one diff: none, the ignore rules, or the path scope.
NoFilter == [kind |-> "none", rules |-> <<>>]
IgnoreFilter(rules) == [kind |-> "ignore", rules |-> rules]
PathsFilter(targets) == [kind |-> "paths", rules |-> targets]

\* opts.filter(path): TRUE skips the path
Excluded(filter, path) ==
  CASE filter.kind = "ignore" -> anymatch(filter.rules, path)
    [] filter.kind = "paths" -> makeDiffFilterByPaths(filter.rules, path)
    [] OTHER -> FALSE

\* ------------------------------------------------------------ diff engine
Change(change, type, path) == [change |-> change, type |-> type, path |-> path]

RECURSIVE AddRecursive(_, _, _)
\* everything at and below path on the left, which the right lacks
AddRecursive(left, o, path) ==
  IF Excluded(o.filter, path) THEN <<>>
  ELSE IF left[path].type = "file" THEN <<Change("add", "file", path)>>
  ELSE <<Change("add", "dir", path)>> \o
       (IF o.shallow THEN <<>>
        ELSE Flatten(MapSeq(LAMBDA q: AddRecursive(left, o, q), Names(left, path))))

RECURSIVE DelRecursive(_, _, _)
\* everything at and below path on the right, which the left lacks
DelRecursive(right, o, path) ==
  IF Excluded(o.filter, path) THEN <<>>
  ELSE IF right[path].type = "file" THEN <<Change("del", "file", path)>>
  ELSE (IF o.shallow THEN <<>>
        ELSE Flatten(MapSeq(LAMBDA q: DelRecursive(right, o, q), Names(right, path))))
       \o <<Change("del", "dir", path)>>

\* a file on both sides: modified when the content is compared and differs
DiffFileEntry(left, right, o, path) ==
  IF o.compareContent /\ (left[path].size # right[path].size
                            \/ left[path].data # right[path].data)
    THEN <<Change("mod", "file", path)>>
    ELSE <<>>

RECURSIVE Walk(_, _, _, _)
RECURSIVE DiffPath(_, _, _, _)
DiffPath(left, right, o, path) ==
  IF Excluded(o.filter, path) THEN <<>>
  ELSE IF left[path].type = "dir" /\ right[path].type = "dir"
    THEN Walk(left, right, o, path)
  ELSE DiffFileEntry(left, right, o, path)

Walk(left, right, o, dir) ==
  LET leftNames == Names(left, dir)
      rightNames == Names(right, dir)
      OnLeft(q) == IF right[q].type # "none" THEN DiffPath(left, right, o, q)
                   ELSE AddRecursive(left, o, q)
      rightOnly == SelectSeq(rightNames, LAMBDA q: left[q].type = "none")
  IN Flatten(MapSeq(OnLeft, leftNames)) \o
     Flatten(MapSeq(LAMBDA q: DelRecursive(right, o, q), rightOnly))

\* dft.diff({fs: left}, {fs: right}, opts)
dft_diff(left, right, o) == Walk(left, right, o, ROOT)

\* ------------------------------------------------------------ apply engine
\* The operation an entry stands for: applyRight makes the right side like the
\* left, applyLeft undoes the entry on the left side.
EntryOp(direction, e) ==
  IF direction = "right"
    THEN CASE e.change = "add" /\ e.type = "dir" -> "mkdir"
           [] e.change = "del" /\ e.type = "dir" -> "rmdir"
           [] e.change = "del" /\ e.type = "file" -> "unlink"
           [] OTHER -> "copy"
    ELSE CASE e.change = "add" /\ e.type = "dir" -> "rmdir"
           [] e.change = "del" /\ e.type = "dir" -> "mkdir"
           [] e.change = "add" /\ e.type = "file" -> "unlink"
           [] OTHER -> "copy"

\* applyRight takes the entries in order, applyLeft in reverse
ApplyOrder(direction, changes) ==
  IF direction = "right" THEN changes ELSE Reverse(changes)

ParentOk(dst, path) ==
  Dirname(path) = ROOT \/ dst[Dirname(path)].type = "dir"

\* whether the tree accepts the operation
CanApply(src, dst, op, path) ==
  CASE op = "mkdir" -> dst[path].type = "none" /\ ParentOk(dst, path)
    [] op = "rmdir" -> dst[path].type = "dir" /\ Names(dst, path) = <<>>
    [] op = "unlink" -> dst[path].type = "file"
    [] OTHER -> /\ src[path].type = "file"
                /\ dst[path].type # "dir"
                /\ (ParentOk(dst, path) \/ dst[Dirname(path)].type = "none")

\* the destination after the operation; a copy creates the parent directory
Applied(src, dst, op, path) ==
  CASE op = "mkdir" -> [dst EXCEPT ![path] = DirNode]
    [] op \in {"rmdir", "unlink"} -> [dst EXCEPT ![path] = NoNode]
    [] OTHER -> IF ParentOk(dst, path)
                  THEN [dst EXCEPT ![path] = src[path]]
                  ELSE [dst EXCEPT ![path] = src[path], ![Dirname(path)] = DirNode]

\* ------------------------------------------------------------ binary guard
\* lib/mime isFileNameBinary: "true" or "false" when the extension decides,
\* "undefined" when the name does not tell
isFileNameBinary(filepath) ==
  IF EndsWith(filepath, <<".", "p", "n", "g">>) THEN "true"
  ELSE IF EndsWith(filepath, <<".", "m", "d">>) THEN "false"
  ELSE "undefined"

\* lib/mime isFileContentBinary: the content sniff (a NUL byte in the content)
isFileContentBinary(fs, filepath) == NUL \in Range(readFile(fs, filepath))

\* st && st.isFile() && st.size > MAX_DIFF_SIZE
\* (variant) the ceiling itself is refused
TooLargeAtCeiling(st) == st.type = "file" /\ st.size >= MAX_DIFF_SIZE

TooLarge(st) == st.type = "file" /\ st.size > MAX_DIFF_SIZE

\* ------------------------------------------------------------ errors
NoErr == [kind |-> "none", what |-> <<>>]
Err(kind, what) == [kind |-> kind, what |-> what]

RECURSIVE FirstError(_)
\* the first check that throws ends the operation
FirstError(errs) ==
  IF errs = <<>> THEN NoErr
  ELSE IF Head(errs) # NoErr THEN Head(errs) ELSE FirstError(Tail(errs))

\* ------------------------------------------------------------ preconditions
N_OK == <<"w", "s">>
N_BAD == <<"w", " ", "s">>

\* lib/const WORKSPACE_VALID_NAME_REGEX.test(name): letters, digits and dashes
NAME_CHARS == {"w", "s", "-", "1"}
WORKSPACE_VALID_NAME_REGEX(name) ==
  Len(name) > 0 /\ \A i \in 1..Len(name) : name[i] \in NAME_CHARS

assertValidProfileId(profileId) ==
  IF profileId.t # "number" THEN Err("Error", <<"p", "r", "o", "f", "i", "l", "e">>)
  ELSE NoErr

assertValidName(name) ==
  IF ~WORKSPACE_VALID_NAME_REGEX(name) THEN Err("Error", name) ELSE NoErr

\* a name that is the url of the target
N_URL == <<"d", "a", "t", ":", "/", "/", "k">>

assertDatUrl(url) ==
  IF ~StartsWith(url, <<"d", "a", "t", ":", "/", "/">>) THEN Err("InvalidURLError", url)
  ELSE NoErr

\* What workspacesDb.get answers: a record, or none.
WS_NONE == [found |-> FALSE, localFilesPath |-> FALSE, publishTargetUrl |-> FALSE]
WS_OK == [found |-> TRUE, localFilesPath |-> TRUE, publishTargetUrl |-> TRUE]
WS_NOPATH == [found |-> TRUE, localFilesPath |-> FALSE, publishTargetUrl |-> TRUE]
WS_NOURL == [found |-> TRUE, localFilesPath |-> TRUE, publishTargetUrl |-> FALSE]

\* What archivesDb answers about the target: getMeta and getUserSettings.
REG_OK == [isOwner |-> TRUE, isSaved |-> TRUE]
REG_NOTOWNER == [isOwner |-> FALSE, isSaved |-> TRUE]
REG_NOTSAVED == [isOwner |-> TRUE, isSaved |-> FALSE]

assertDatIsSavedAndOwned(name, reg) ==
  IF ~reg.isOwner THEN Err("ArchiveNotWritableError", name)
  ELSE IF ~reg.isSaved THEN Err("ArchiveNotWritableError", name)
  ELSE NoErr

validateWorkspaceRecord(name, ws, reg) ==
  IF ~ws.found THEN Err("Error", name)
  ELSE IF ~ws.localFilesPath THEN Err("Error", name)
  ELSE IF ~ws.publishTargetUrl THEN Err("Error", name)
  ELSE assertDatIsSavedAndOwned(name, reg)

\* ------------------------------------------------------------ options
OptUndef == [t |-> "undefined", items |-> <<>>]
OptArray(items) == [t |-> "array", items |-> items]
RawOpts(shallow, compareContent, paths) ==
  [shallow |-> shallow, compareContent |-> compareContent, paths |-> paths]

\* (variant) an array without a string in it counts as no paths
massageDiffOptsEmptyIsNone(opts) ==
  LET strings == IF opts.paths.t = "array"
                   THEN MapSeq(LAMBDA v: v.s,
                               SelectSeq(opts.paths.items, LAMBDA v: v.t = "string"))
                   ELSE <<>>
  IN [compareContent |-> IF opts.compareContent.t = "boolean"
                           THEN opts.compareContent.b ELSE TRUE,
      shallow |-> IF opts.shallow.t = "boolean" THEN opts.shallow.b ELSE TRUE,
      hasPaths |-> strings # <<>>,
      paths |-> strings]

massageDiffOpts(opts) ==
  [compareContent |-> IF opts.compareContent.t = "boolean"
                        THEN opts.compareContent.b ELSE TRUE,
   shallow |-> IF opts.shallow.t = "boolean" THEN opts.shallow.b ELSE TRUE,
   hasPaths |-> opts.paths.t = "array",
   paths |-> IF opts.paths.t = "array"
               THEN MapSeq(LAMBDA v: v.s,
                           SelectSeq(opts.paths.items, LAMBDA v: v.t = "string"))
               ELSE <<>>]

\* ------------------------------------------------------------ state
AllProcs == {"p1", "p2"}

VARIABLES
  local,    \* the scoped fs of the workspace's localFilesPath
  archive,  \* the dat archive of the workspace's publishTargetUrl
  calls,    \* per caller: the API call it runs, and how far it is
  streams,  \* the watch streams handed out
  ncalls,   \* per caller: the calls it has started
  procs     \* the callers of this behaviour

vars == <<local, archive, calls, streams, ncalls, procs>>

\* ------------------------------------------------------------ inputs
TXT1 == TextFile(<<"1">>)
TXT2 == TextFile(<<"2">>)
BIN == TextFile(<<NUL>>)
BIG_OK == FileNode(<<"k">>, MAX_DIFF_SIZE)
BIG == FileNode(<<"b">>, MAX_DIFF_SIZE + 1)
IG_X == TextFile(<<"x", LF>>)
IG_T == TextFile(<<LF, "/", "t", ".", "m", "d", LF>>)

MkTree(ig, git, d, x, png, t) ==
  (P_DATIGNORE :> ig) @@ (P_GIT :> git) @@ (P_D :> d) @@ (P_DX :> x)
    @@ (P_PNG :> png) @@ (P_T :> t)

EmptyTree == MkTree(NoNode, NoNode, NoNode, NoNode, NoNode, NoNode)

\* the folders and archives a behaviour starts from
Trees ==
  { EmptyTree,
    MkTree(NoNode, DirNode, DirNode, TXT1, TXT1, TXT1),
    MkTree(IG_X, NoNode, DirNode, TXT2, NoNode, TXT2),
    MkTree(IG_T, NoNode, DirNode, NoNode, NoNode, BIG),
    MkTree(NoNode, NoNode, DirNode, BIN, NoNode, BIG_OK),
    MkTree(NoNode, NoNode, DirNode, BIG, NoNode, TXT2) }

\* dir: whether the folder of the record is a directory on disk
GoodIn == [profileId |-> JNum, name |-> N_OK, ws |-> WS_OK, reg |-> REG_OK, dir |-> TRUE]

\* the record is complete and its folder is gone from the disk
GoneIn == [GoodIn EXCEPT !.dir = FALSE]

\* inputs with which a precondition fails
BadIns ==
  { [GoodIn EXCEPT !.profileId = JUndef],
    [GoodIn EXCEPT !.name = N_BAD],
    [GoodIn EXCEPT !.name = N_BAD, !.ws = WS_NONE],
    [GoodIn EXCEPT !.ws = WS_NONE],
    [GoodIn EXCEPT !.ws = WS_NOPATH],
    [GoodIn EXCEPT !.ws = WS_NOURL],
    [GoodIn EXCEPT !.reg = REG_NOTOWNER],
    [GoodIn EXCEPT !.reg = REG_NOTSAVED] }

Ins == {GoodIn} \cup BadIns

T_D_REL == <<"d", "/">>
T_D_DOUBLE == <<"/", "d", "/", "/">>

NoOpts == RawOpts(JUndef, JUndef, OptUndef)

\* the option objects a caller passes
OptChoices ==
  { NoOpts,
    RawOpts(JBool(FALSE), JBool(TRUE), OptUndef),
    RawOpts(JBool(TRUE), JBool(FALSE), OptUndef),
    RawOpts(JStr(<<"x">>), JUndef, OptUndef),
    RawOpts(JUndef, JUndef, OptArray(<<JStr(T_D_DOUBLE)>>)),
    RawOpts(JBool(FALSE), JUndef, OptArray(<<JStr(P_DX), JStr(P_T)>>)),
    RawOpts(JBool(FALSE), JUndef, OptArray(<<JStr(P_D)>>)),
    RawOpts(JBool(FALSE), JUndef, OptArray(<<JStr(T_D_REL)>>)),
    RawOpts(JBool(FALSE), JUndef, OptArray(<<>>)),
    RawOpts(JBool(FALSE), JUndef, OptArray(<<JNum>>)) }

P_DX_RAW == <<"/", "d", "/", ".", "/", "x">>

\* the file paths a caller asks a diff of
DiffPaths == {P_T, P_DX, P_DX_RAW, P_PNG}

\* the lines a caller adds to the .datignore
Lines == {JStr(<<"x">>), JStr(P_T), JStr(<<LF>>), JStr(<<>>), JNum}

\* every input pair of an operation: the good inputs with each argument, the
\* failing inputs with one argument
InputPairs(args, arg0) ==
  {<<GoodIn, a>> : a \in args} \cup {<<b, arg0>> : b \in BadIns}

\* ------------------------------------------------------------ calls
\* one request to a tree, and whether the tree carried it out
Io(fs, op, path) == [fs |-> fs, op |-> op, path |-> path, ok |-> TRUE]
IoFailed(fs, op, path) == [fs |-> fs, op |-> op, path |-> path, ok |-> FALSE]

IdleCall ==
  [op |-> "none", pc |-> "idle", in |-> GoodIn, rawOpts |-> NoOpts,
   opts |-> massageDiffOpts(NoOpts), filepath |-> <<>>, line |-> JUndef,
   acq |-> "none", handle |-> "none", elapsed |-> 0, changes |-> <<>>, queue |-> <<>>, applied |-> 0,
   err |-> NoErr, result |-> <<>>, io |-> <<>>,
   preLocal |-> EmptyTree, preArchive |-> EmptyTree]

\* the record of a call as it starts
NewCall(op, in) ==
  [IdleCall EXCEPT !.op = op, !.pc = "start", !.in = in,
                   !.preLocal = local, !.preArchive = archive]

Fail(c, e) == [c EXCEPT !.pc = "failed", !.err = e]

\* a call goes on after its checks only when none of them threw
Checked(c, e, nextpc) == IF e # NoErr THEN Fail(c, e) ELSE [c EXCEPT !.pc = nextpc]

Ended(c) == c.pc \in {"idle", "done", "failed"}

CanCall(p) == p \in procs /\ Ended(calls[p]) /\ ncalls[p] < MaxCalls

Start(p, c) ==
  /\ calls' = [calls EXCEPT ![p] = c]
  /\ ncalls' = [ncalls EXCEPT ![p] = @ + 1]
  /\ UNCHANGED <<local, archive, streams, procs>>

\* ------------------------------------------------------------ the checks of each operation
setupFolderChecks(in) ==
  FirstError(<<assertValidProfileId(in.profileId),
               validateWorkspaceRecord(in.name, in.ws, in.reg)>>)

workspaceChecks(in) ==
  FirstError(<<assertValidProfileId(in.profileId),
               assertValidName(in.name),
               validateWorkspaceRecord(in.name, in.ws, in.reg)>>)

\* diff: the name of the file is looked at before the workspace is fetched
\* (variant) the workspace record is fetched before the file name is looked at
diffChecksRecordFirst(in, filepath) ==
  FirstError(<<assertValidProfileId(in.profileId),
               assertValidName(in.name),
               validateWorkspaceRecord(in.name, in.ws, in.reg),
               IF isFileNameBinary(Normalize(filepath)) = "true"
                 THEN Err("InvalidEncodingError", Normalize(filepath)) ELSE NoErr>>)

diffChecks(in, filepath) ==
  FirstError(<<assertValidProfileId(in.profileId),
               assertValidName(in.name),
               IF isFileNameBinary(Normalize(filepath)) = "true"
                 THEN Err("InvalidEncodingError", Normalize(filepath)) ELSE NoErr,
               validateWorkspaceRecord(in.name, in.ws, in.reg)>>)

addToDatignoreChecks(in, line) ==
  FirstError(<<assertValidProfileId(in.profileId),
               assertValidName(in.name),
               IF line.t # "string" \/ line.s = <<>>
                 THEN Err("Error", <<"l", "i", "n", "e">>) ELSE NoErr,
               validateWorkspaceRecord(in.name, in.ws, in.reg)>>)

\* ------------------------------------------------------------ operations: entry
setupFolderOf(p, ins) ==
  /\ CanCall(p)
  /\ \E in \in ins :
       Start(p, Checked(NewCall("setupFolder", in), setupFolderChecks(in), "acquire"))

setupFolder(p) == setupFolderOf(p, Ins)

listChangedFiles(p) ==
  /\ CanCall(p)
  /\ \E x \in InputPairs(OptChoices, NoOpts) :
       Start(p, Checked([NewCall("listChangedFiles", x[1]) EXCEPT
                           !.rawOpts = x[2], !.opts = massageDiffOpts(x[2])],
                        workspaceChecks(x[1]), "acquire"))

diff(p) ==
  /\ CanCall(p)
  /\ \E x \in InputPairs(DiffPaths, P_T) \cup {<<b, P_PNG>> : b \in BadIns} :
       Start(p, Checked([NewCall("diff", x[1]) EXCEPT !.filepath = Normalize(x[2])],
                        diffChecks(x[1], x[2]), "acquire"))

publishOf(p, ins) ==
  /\ CanCall(p)
  /\ \E x \in ins :
       Start(p, Checked([NewCall("publish", x[1]) EXCEPT
                           !.rawOpts = x[2], !.opts = massageDiffOpts(x[2])],
                        workspaceChecks(x[1]), "acquire"))

publish(p) == publishOf(p, InputPairs(OptChoices, NoOpts))

revertOf(p, ins) ==
  /\ CanCall(p)
  /\ \E x \in ins :
       Start(p, Checked([NewCall("revert", x[1]) EXCEPT
                           !.rawOpts = x[2], !.opts = massageDiffOpts(x[2])],
                        workspaceChecks(x[1]), "acquire"))

revert(p) == revertOf(p, InputPairs(OptChoices, NoOpts))

addToDatignoreOf(p, ins) ==
  /\ CanCall(p)
  /\ \E x \in ins :
       Start(p, Checked([NewCall("addToDatignore", x[1]) EXCEPT !.line = x[2]],
                        addToDatignoreChecks(x[1], x[2]), "datignore"))

addToDatignore(p) == addToDatignoreOf(p, InputPairs(Lines, JStr(<<"x">>)))

\* the inputs of get: a name or the url of the target, a folder on disk or gone
GetIns ==
  Ins \cup {GoneIn, [GoodIn EXCEPT !.name = N_URL], [GoneIn EXCEPT !.name = N_URL]}

getChecks(in) ==
  FirstError(<<assertValidProfileId(in.profileId),
               IF StartsWith(in.name, <<"d", "a", "t", ":", "/", "/">>)
                 THEN assertDatUrl(in.name) ELSE assertValidName(in.name)>>)

\* check that the files path is valid: the record as get returns it, in a
\* sequence that is empty when there is no record
CheckedRecord(in) ==
  IF ~in.ws.found THEN <<>>
  ELSE LET valid == in.ws.localFilesPath /\ in.dir IN
       << [localFilesPath |-> valid,
           publishTargetUrl |-> in.ws.publishTargetUrl,
           localFilesPathIsMissing |-> ~valid,
           missingLocalFilesPath |-> in.ws.localFilesPath /\ ~in.dir] >>

\* get: the checks, the record, the stat of its folder on disk
get(p) ==
  /\ CanCall(p)
  /\ \E in \in GetIns :
       LET c == Checked(NewCall("get", in), getChecks(in), "done") IN
       Start(p, IF c.pc = "done"
                  THEN [c EXCEPT !.result = CheckedRecord(in),
                                 !.io = IF in.ws.found /\ in.ws.localFilesPath
                                          THEN <<Io("disk", "stat", ROOT)>> ELSE <<>>]
                  ELSE c)

\* A stream as watch returns it, with its own emitter and its own
\* subscription at the root of the scoped fs.
\*   sent: what the tree has notified since the stream was made
\*   heard: what the callback of the subscription was called with
\*   events: the 'changed' events the stream has carried
\*   stopped: how often stopwatch was called; raised: whether close threw
NewStream ==
  [open |-> TRUE, subscribed |-> TRUE, sent |-> <<>>, heard |-> <<>>,
   events |-> <<>>, closedAt |-> 0, stopped |-> 0, raised |-> FALSE]

\* watch: the checks, then the subscription at the root of the scoped fs
watchOf(p, ins) ==
  /\ CanCall(p)
  /\ \E in \in ins :
       LET c == Checked(NewCall("watch", in), workspaceChecks(in), "done") IN
       /\ calls' = [calls EXCEPT ![p] =
            IF c.pc = "done" THEN [c EXCEPT !.io = <<Io("local", "watch", ROOT)>>] ELSE c]
       /\ streams' = IF c.pc = "done" THEN Append(streams, NewStream) ELSE streams
  /\ ncalls' = [ncalls EXCEPT ![p] = @ + 1]
  /\ UNCHANGED <<local, archive, procs>>

watch(p) == watchOf(p, Ins)

\* (variant) a notification for the path of the last event is dropped
EmitChangedOnce(events, path) ==
  IF events # <<>> /\ events[Len(events)].path = path THEN events
  ELSE Append(events, [path |-> path])

\* emitter.emit('changed', {path})
EmitChanged(events, path) == Append(events, [path |-> path])

\* the paths the tree notifies
WatchPaths == {P_T, P_DX}

\* The local tree notifies a change: the callback of every subscription is
\* called with the path, and emits it on its stream; a closed stream carries
\* nothing any more.
Notify ==
  /\ \E i \in 1..Len(streams) : streams[i].subscribed
  /\ \A i \in 1..Len(streams) : Len(streams[i].sent) < MaxEvents
  /\ \E path \in WatchPaths :
       streams' = [i \in 1..Len(streams) |->
         LET st == [streams[i] EXCEPT !.sent = Append(@, path)] IN
         IF ~st.subscribed THEN st
         ELSE [st EXCEPT !.heard = Append(@, path),
                         !.events = IF st.open THEN EmitChanged(@, path) ELSE @]]
  /\ UNCHANGED <<local, archive, calls, ncalls, procs>>

\* (variant) one subscription serves every stream, and stopwatch ends it
StopwatchOfAll(strs, i, threw) ==
  [j \in 1..Len(strs) |-> [strs[j] EXCEPT !.subscribed = FALSE]]

\* stopwatch(): the subscription of this stream ends, unless the call throws
Stopwatch(strs, i, threw) ==
  [strs EXCEPT ![i].subscribed = IF threw THEN @ ELSE FALSE]

\* try { stopwatch() } catch (e) { /* ignore */ }
OnStopwatchError(threw) == FALSE

\* stream.on('close'): the stream is closed and stopwatch is called once
Close ==
  /\ \E i \in 1..Len(streams), threw \in BOOLEAN :
       /\ streams[i].open
       /\ streams' = [Stopwatch(streams, i, threw) EXCEPT
                        ![i].open = FALSE,
                        ![i].closedAt = Len(streams[i].heard),
                        ![i].stopped = @ + 1,
                        ![i].raised = threw /\ OnStopwatchError(threw)]
  /\ UNCHANGED <<local, archive, calls, ncalls, procs>>

\* ------------------------------------------------------------ archive acquisition
\* lib/time timer(ms, fn): resolves with fn when fn settles within ms
\* milliseconds, rejects with a TimeoutError when it does not
timer(ms, elapsed) == IF elapsed <= ms THEN "resolved" ELSE "TimeoutError"

\* how long the archive takes to load: within the window, or past it
LoadTimes == {ARCHIVE_TIMEOUT_MS, ARCHIVE_TIMEOUT_MS + 1}

\* (variant) the rejection of the timer is swallowed and the call goes on
AfterAcquireSwallowsTimeout(c, elapsed) ==
  [c EXCEPT !.acq = "resolved", !.pc = IF c.op = "diff" THEN "guards" ELSE "diff"]

\* await timer(3e3, ...): the call goes on when the archive is loaded within
\* ARCHIVE_TIMEOUT_MS, and is rejected with the timer's TimeoutError otherwise
AfterAcquire(c, elapsed) ==
  IF timer(ARCHIVE_TIMEOUT_MS, elapsed) = "resolved"
    THEN [c EXCEPT !.acq = "resolved", !.pc = IF c.op = "diff" THEN "guards" ELSE "diff"]
    ELSE [Fail(c, Err("TimeoutError", c.in.name)) EXCEPT !.acq = "timedout"]

\* lib/bg/scoped-fses get(path): the handle of the folder, cached by path.  For
\* a folder that is gone the acquisition may fail, or answer a cached handle
\* on which every request fails.
scopedFSes_get(in) == IF in.dir THEN {"tree"} ELSE {"throws", "dead"}

\* what the helpers stat and readFile see through a handle: they resolve
\* null and '' on an error, as for an empty tree
Seen(handle, fs) == IF handle = "dead" THEN [q \in Paths |-> NoNode] ELSE fs

Acquire(p) ==
  /\ p \in procs /\ calls[p].pc = "acquire"
  /\ \E elapsed \in LoadTimes, h \in scopedFSes_get(calls[p].in) :
       calls' = [calls EXCEPT ![p] =
                   IF h = "throws"
                     THEN [Fail(calls[p], Err("Error", calls[p].in.name))
                             EXCEPT !.acq = "rejected"]
                     ELSE [AfterAcquire(calls[p], elapsed)
                             EXCEPT !.elapsed = elapsed, !.handle = h]]
  /\ UNCHANGED <<local, archive, streams, ncalls, procs>>

\* The archive loads after the timer has fired: the callback assigns its
\* variable, and nothing awaits it any more.
LateResolve(p) ==
  /\ p \in procs /\ calls[p].pc = "failed" /\ calls[p].acq = "timedout"
  /\ calls' = [calls EXCEPT ![p].acq = "late"]
  /\ UNCHANGED <<local, archive, streams, ncalls, procs>>

\* ------------------------------------------------------------ diff and apply
\* (variant) the ignore rules are used whether paths are given or not
BuildFilterIgnoreOnly(opts, scopedFS) == IgnoreFilter(readDatIgnore(scopedFS))

\* build ignore rules: the path scope when paths are given, else the .datignore
BuildFilter(opts, scopedFS) ==
  IF opts.hasPaths THEN PathsFilter(opts.paths)
  ELSE IgnoreFilter(readDatIgnore(scopedFS))

\* (variant) publish and revert keep the shallow option of the caller
ShallowOfCaller(op, opts) == opts.shallow

\* (variant) publish keeps the shallow option of its caller
ShallowOfPublishAsGiven(op, opts) == IF op = "revert" THEN FALSE ELSE opts.shallow

\* (variant) revert keeps the shallow option of its caller
ShallowOfRevertAsGiven(op, opts) == IF op = "publish" THEN FALSE ELSE opts.shallow

\* opts.shallow = false in publish and revert ("can't do shallow")
ShallowOf(op, opts) == IF op = "listChangedFiles" THEN opts.shallow ELSE FALSE

DiffOptions(c, scopedFS) ==
  [filter |-> BuildFilter(c.opts, scopedFS),
   shallow |-> ShallowOf(c.op, c.opts),
   compareContent |-> c.opts.compareContent]

\* setupFolder passes no options: no filter, shallow and compareContent unset
SetupOptions == [filter |-> NoFilter, shallow |-> FALSE, compareContent |-> FALSE]

\* (variant) the diff is applied whole
AddOnlyKeepsAll(changes) == changes

\* diff.filter(d => d.change === 'add')
AddOnly(changes) == SelectSeq(changes, LAMBDA d: d.change = "add")

\* the diff an operation computes
ChangesOf(c, scopedFS, arch) ==
  IF c.op = "setupFolder" THEN AddOnly(dft_diff(arch, scopedFS, SetupOptions))
  ELSE dft_diff(scopedFS, arch, DiffOptions(c, scopedFS))

\* applyRight for publish and setupFolder, applyLeft for revert
Direction(op) == IF op = "revert" THEN "left" ELSE "right"

\* (variant) every apply writes the archive
DstSideArchive(op) == "archive"

\* the tree an operation writes to
DstSide(op) == IF op = "publish" THEN "archive" ELSE "local"

DiffIo(c) ==
  (IF c.op # "setupFolder" /\ ~c.opts.hasPaths
     THEN <<Io("local", "readFile", P_DATIGNORE)>> ELSE <<>>)
  \o <<Io("local", "readdir", ROOT), Io("archive", "readdir", ROOT)>>

\* (variant) a call waits while another call is between its diff and the end
\* of its apply
MayStepUnderLock(p) ==
  p \in procs /\ \A q \in procs \ {p} : calls[q].pc \notin {"diff", "apply"}

\* publish and revert take no lock on the workspace: a call takes its next
\* step whenever it is at that step, wherever the other calls are
MayStep(p) == p \in procs

\* the diff over a handle on which every request fails is rejected
OnDeadTree(c) ==
  Fail([c EXCEPT !.io = c.io \o <<IoFailed("local", "readdir", ROOT)>>],
       Err("IOError", ROOT))

RunDiff(p) ==
  /\ MayStep(p) /\ calls[p].pc = "diff"
  /\ LET c == calls[p]
         changes == ChangesOf(c, local, archive)
         queue == ApplyOrder(Direction(c.op), changes)
         c1 == [c EXCEPT !.changes = changes, !.io = c.io \o DiffIo(c)]
     IN calls' = [calls EXCEPT ![p] =
          IF c.handle = "dead" THEN OnDeadTree(c)
          ELSE IF c.op = "listChangedFiles"
            THEN [c1 EXCEPT !.pc = "done", !.result = changes]
            ELSE [c1 EXCEPT !.queue = queue,
                            !.pc = IF queue = <<>> THEN "done" ELSE "apply"]]
  /\ UNCHANGED <<local, archive, streams, ncalls, procs>>

\* await dft.applyRight / applyLeft: a rejected entry rejects the call, which
\* neither catches it nor undoes what was applied
\* (variant) the failure of an entry is swallowed and the next one is taken
OnApplyErrorGoesOn(c, path) ==
  [c EXCEPT !.applied = c.applied + 1,
            !.pc = IF c.applied + 1 = Len(c.queue) THEN "done" ELSE "apply"]

OnApplyError(c, path) == Fail(c, Err("IOError", path))

\* One entry of the diff is applied to the destination; the tree may refuse
\* it, or the write may fail.
ApplyStep(p) ==
  /\ MayStep(p) /\ calls[p].pc = "apply"
  /\ LET c == calls[p]
         e == c.queue[c.applied + 1]
         op == EntryOp(Direction(c.op), e)
         toArchive == DstSide(c.op) = "archive"
         src == IF toArchive THEN local ELSE archive
         dst == IF toArchive THEN archive ELSE local
         c1 == [c EXCEPT !.io = Append(c.io, Io(DstSide(c.op), op, e.path))]
         c2 == [c EXCEPT !.io = Append(c.io, IoFailed(DstSide(c.op), op, e.path))]
     IN \E fault \in BOOLEAN :
          IF ~fault /\ CanApply(src, dst, op, e.path)
            THEN /\ calls' = [calls EXCEPT ![p] =
                      [c1 EXCEPT !.applied = c.applied + 1,
                                 !.pc = IF c.applied + 1 = Len(c.queue)
                                          THEN "done" ELSE "apply"]]
                 /\ IF toArchive
                      THEN /\ archive' = Applied(src, dst, op, e.path)
                           /\ local' = local
                      ELSE /\ local' = Applied(src, dst, op, e.path)
                           /\ archive' = archive
            ELSE /\ calls' = [calls EXCEPT ![p] = OnApplyError(c2, e.path)]
                 /\ UNCHANGED <<local, archive>>
  /\ UNCHANGED <<streams, ncalls, procs>>

\* ------------------------------------------------------------ diff of one file
\* diff.diffLines(oldFile, newFile): the two texts the line diff is made of
diffLines(oldFile, newFile) == <<oldFile, newFile>>

\* (variant) the content is never sniffed
SideGuardSizeOnly(fs, side, filepath, isBinary) ==
  LET st == stat(fs, filepath) IN
  IF TooLarge(st)
    THEN [err |-> Err("SourceTooLargeError", filepath),
          io |-> <<Io(side, "stat", filepath)>>]
    ELSE [err |-> NoErr, io |-> <<Io(side, "stat", filepath)>>]

\* the checks of one side: the content sniff unless the name says text, then
\* the size
SideGuard(fs, side, filepath, isBinary) ==
  LET st == stat(fs, filepath)
      sniff == isBinary # "false" /\ st.type = "file"
      io == <<Io(side, "stat", filepath)>> \o
            (IF sniff THEN <<Io(side, "sniff", filepath)>> ELSE <<>>)
  IN IF sniff /\ isFileContentBinary(fs, filepath)
       THEN [err |-> Err("InvalidEncodingError", filepath), io |-> io]
     ELSE IF TooLarge(st)
       THEN [err |-> Err("SourceTooLargeError", filepath), io |-> io]
     ELSE [err |-> NoErr, io |-> io]

\* make sure we can handle the buffers involved, read the file in both
\* sources, return the diff
DiffBody(c, scopedFS, arch) ==
  LET isBinary == isFileNameBinary(c.filepath)
      g1 == SideGuard(scopedFS, "local", c.filepath, isBinary)
      g2 == SideGuard(arch, "archive", c.filepath, isBinary)
  IN IF g1.err # NoErr THEN [Fail(c, g1.err) EXCEPT !.io = c.io \o g1.io]
     ELSE IF g2.err # NoErr THEN [Fail(c, g2.err) EXCEPT !.io = c.io \o g1.io \o g2.io]
     ELSE [c EXCEPT !.pc = "done",
                    !.io = c.io \o g1.io \o g2.io \o
                           <<Io("local", "readFile", c.filepath),
                             Io("archive", "readFile", c.filepath)>>,
                    !.result = diffLines(readFile(arch, c.filepath),
                                         readFile(scopedFS, c.filepath))]

DiffGuards(p) ==
  /\ p \in procs /\ calls[p].pc = "guards"
  /\ calls' = [calls EXCEPT ![p] =
                DiffBody(calls[p], Seen(calls[p].handle, local), archive)]
  /\ UNCHANGED <<local, archive, streams, ncalls, procs>>

\* ------------------------------------------------------------ .datignore
REL_DATIGNORE == <<".", "d", "a", "t", "i", "g", "n", "o", "r", "e">>

\* read & update rules
AddLine(datignore, line) ==
  Join(FilterBoolean(Append(Split(datignore, LF), line)), LF) \o <<LF>>

\* The handle is fetched, the file read (an error of the read gives
\* undefined, taken as ''), the line added and the file written; the callback
\* of the write resolves whatever the write answers.
DatignoreWrite(p) ==
  /\ p \in procs /\ calls[p].pc = "datignore"
  /\ \E h \in scopedFSes_get(calls[p].in), unreadable \in BOOLEAN :
       LET c == calls[p]
           old == IF unreadable \/ h = "dead" THEN <<>>
                  ELSE readFile(local, REL_DATIGNORE)
           datignore == AddLine(old, c.line.s)
           rd == IF unreadable \/ h = "dead"
                   THEN IoFailed("local", "readFile", P_DATIGNORE)
                   ELSE Io("local", "readFile", P_DATIGNORE)
       IN CASE h = "throws" ->
                 /\ calls' = [calls EXCEPT ![p] = Fail(c, Err("Error", c.in.name))]
                 /\ local' = local
            [] h = "dead" ->
                 /\ calls' = [calls EXCEPT ![p] =
                      [c EXCEPT !.pc = "done", !.handle = h,
                                !.io = c.io \o <<rd, IoFailed("local", "writeFile", P_DATIGNORE)>>]]
                 /\ local' = local
            [] OTHER ->
                 /\ calls' = [calls EXCEPT ![p] =
                      [c EXCEPT !.pc = "done", !.handle = h,
                                !.io = c.io \o <<rd, Io("local", "writeFile", P_DATIGNORE)>>]]
                 /\ local' = [local EXCEPT ![TreePath(REL_DATIGNORE)] = TextFile(datignore)]
  /\ UNCHANGED <<archive, streams, ncalls, procs>>

\* ------------------------------------------------------------ specification
Init ==
  /\ local \in Trees
  /\ archive \in Trees
  /\ calls = [p \in AllProcs |-> IdleCall]
  /\ streams = <<>>
  /\ ncalls = [p \in AllProcs |-> 0]
  /\ procs = {"p1"}

Next ==
  \E p \in AllProcs :
    \/ setupFolder(p)
    \/ listChangedFiles(p)
    \/ diff(p)
    \/ publish(p)
    \/ revert(p)
    \/ watch(p)
    \/ addToDatignore(p)
    \/ Acquire(p)
    \/ LateResolve(p)
    \/ RunDiff(p)
    \/ ApplyStep(p)
    \/ DiffGuards(p)
    \/ DatignoreWrite(p)

Spec == Init /\ [][Next]_vars

\* ------------------------------------------------------------ folder gone
\* The operations on a workspace whose folder may be gone from the disk.
GoneOrNot(args) == {<<in, a>> : in \in {GoodIn, GoneIn}, a \in args}

NextMissing ==
  \E p \in AllProcs :
    \/ get(p)
    \/ setupFolderOf(p, {GoodIn, GoneIn})
    \/ publishOf(p, GoneOrNot({NoOpts}))
    \/ revertOf(p, GoneOrNot({NoOpts}))
    \/ addToDatignoreOf(p, GoneOrNot({JStr(<<"x">>)}))
    \/ Acquire(p)
    \/ LateResolve(p)
    \/ RunDiff(p)
    \/ ApplyStep(p)
    \/ DatignoreWrite(p)

SpecMissing == Init /\ [][NextMissing]_vars

\* ------------------------------------------------------------ properties
TimedOps == {"setupFolder", "listChangedFiles", "diff", "publish", "revert"}
WorkspaceOps == TimedOps \cup {"watch", "addToDatignore"}

Untouched(c) == c.io = <<>> /\ local = c.preLocal /\ archive = c.preArchive

\* C1: when the archive does not load within the 3000 ms window, setupFolder,
\* listChangedFiles, diff, publish and revert fail with a TimeoutError, the
\* call issues no request to either tree (also not when the archive loads
\* after the timer has fired), and both trees are as they were before the call.
C1_TimeoutTouchesNothing ==
  \A p \in procs :
    LET c == calls[p] IN
    (c.op \in TimedOps /\ c.elapsed > ARCHIVE_TIMEOUT_MS) =>
      /\ c.pc = "failed"
      /\ c.err.kind = "TimeoutError"
      /\ Untouched(c)

\* a publish of differing trees has timed out, and the archive has loaded late
C1_Witness ==
  \E p \in procs :
    /\ calls[p].op = "publish"
    /\ calls[p].elapsed > ARCHIVE_TIMEOUT_MS
    /\ calls[p].acq = "late"
    /\ dft_diff(local, archive, DiffOptions(calls[p], local)) # <<>>

PreconditionFails(in) ==
  \/ assertValidProfileId(in.profileId) # NoErr
  \/ assertValidName(in.name) # NoErr
  \/ validateWorkspaceRecord(in.name, in.ws, in.reg) # NoErr

\* C2: in every operation that takes a workspace, the checks of the profile
\* id, the workspace name, the record, its local path and target, and the
\* ownership of the target come before the first request to either tree: a
\* call for which one of them fails issues no request, leaves both trees
\* unchanged, and ends rejected.
C2_ChecksPrecedeTreeIO ==
  \A p \in procs :
    LET c == calls[p] IN
    (c.op \in WorkspaceOps /\ PreconditionFails(c.in)) =>
      /\ Untouched(c)
      /\ Ended(c) => c.pc = "failed"

\* C3: setupFolder only adds: at every point of the call each path the local
\* tree held before the call is as it was, a path that changed was absent
\* locally and present in the archive, and the archive is unchanged.
C3_SetupFolderAddOnly ==
  \A p \in procs :
    LET c == calls[p] IN
    c.op = "setupFolder" =>
      /\ archive = c.preArchive
      /\ \A q \in Paths :
           /\ c.preLocal[q].type # "none" => local[q] = c.preLocal[q]
           /\ local[q] # c.preLocal[q] =>
                /\ c.preLocal[q].type = "none"
                /\ local[q] = archive[q]

\* a setupFolder has completed on a folder that held a file the archive lacks
\* and a file the archive holds with other content, and has added a path
C3_Witness ==
  \E p \in procs :
    LET c == calls[p] IN
    /\ c.op = "setupFolder" /\ c.pc = "done"
    /\ \E q \in Paths : c.preLocal[q].type = "file" /\ c.preArchive[q].type = "none"
    /\ \E q \in Paths : /\ c.preLocal[q].type = "file" /\ c.preArchive[q].type = "file"
                        /\ c.preLocal[q] # c.preArchive[q]
    /\ \E q \in Paths : local[q] # c.preLocal[q]

\* listChangedFiles(workspace, {shallow: false}) right after call c, with the
\* compareContent of c and no paths
ListAfter(c) ==
  ChangesOf([c EXCEPT !.op = "listChangedFiles",
                      !.opts = [c.opts EXCEPT !.shallow = FALSE, !.hasPaths = FALSE,
                                              !.paths = <<>>]],
            local, archive)

RECURSIVE Hidden(_, _)
\* a rule matches the path or a directory above it
Hidden(rules, q) ==
  anymatch(rules, q) \/ (Dirname(q) # ROOT /\ Hidden(rules, Dirname(q)))

\* the two trees agree on every path the rules do not hide
AgreeOutside(rules, compareContent) ==
  \A q \in Paths :
    ~Hidden(rules, q) =>
      /\ local[q].type = archive[q].type
      /\ compareContent => local[q] = archive[q]

\* C4: after a publish without paths has completed, listChangedFiles with
\* shallow false and the same compareContent returns the empty list: every
\* path of the folder that is not ignored is in the archive (with equal
\* content when content is compared), and no other unignored path is.
C4_PublishConverges ==
  \A p \in procs :
    LET c == calls[p] IN
    (c.op = "publish" /\ c.pc = "done" /\ ~c.opts.hasPaths) =>
      /\ ListAfter(c) = <<>>
      /\ AgreeOutside(readDatIgnore(local), c.opts.compareContent)

\* a publish has applied several entries while an ignored path differs
C4_Witness ==
  \E p \in procs :
    LET c == calls[p] IN
    /\ c.op = "publish" /\ c.pc = "done" /\ ~c.opts.hasPaths
    /\ c.applied >= 2
    /\ \E q \in Paths : anymatch(readDatIgnore(local), q) /\ local[q] # archive[q]

\* C5 as claimed: after a revert without paths has completed,
\* listChangedFiles with shallow false and the same compareContent, its
\* filter compiled from the folder's .datignore as it then is, returns the
\* empty list.
C5_RevertConverges ==
  \A p \in procs :
    LET c == calls[p] IN
    (c.op = "revert" /\ c.pc = "done" /\ ~c.opts.hasPaths) => ListAfter(c) = <<>>

\* the diff of the two trees under given rules, with shallow false
DiffUnder(rules, compareContent) ==
  dft_diff(local, archive,
           [filter |-> IgnoreFilter(rules), shallow |-> FALSE,
            compareContent |-> compareContent])

\* C5 as amended: after a revert without paths has completed, the diff under
\* the rules the revert used (those of the folder's .datignore before the
\* call) is empty and the trees agree on every path those rules do not hide;
\* listChangedFiles returns the empty list whenever the revert has left the
\* rules of the folder's .datignore as they were.
C5_RevertConvergesUnderItsRules ==
  \A p \in procs :
    LET c == calls[p] IN
    (c.op = "revert" /\ c.pc = "done" /\ ~c.opts.hasPaths) =>
      /\ DiffUnder(readDatIgnore(c.preLocal), c.opts.compareContent) = <<>>
      /\ AgreeOutside(readDatIgnore(c.preLocal), c.opts.compareContent)
      /\ readDatIgnore(local) = readDatIgnore(c.preLocal) => ListAfter(c) = <<>>

\* a revert has undone several entries, one of them a folder-only path, with
\* the .datignore of the folder untouched and an ignored path still differing
C5_Witness ==
  \E p \in procs :
    LET c == calls[p] IN
    /\ c.op = "revert" /\ c.pc = "done" /\ ~c.opts.hasPaths
    /\ c.applied >= 2
    /\ \E i \in 1..Len(c.changes) : c.changes[i].change = "add"
    /\ readDatIgnore(local) = readDatIgnore(c.preLocal)
    /\ \E q \in Paths : anymatch(readDatIgnore(local), q) /\ local[q] # archive[q]

\* the rule set as the claim words it: every non-empty line of the
\* .datignore, with the any-depth wildcard in front unless it starts with the
\* separator, and the two rules for the metadata directories
ClaimedRules(fs) ==
  LET lines == FilterBoolean(Split(readFile(fs, REL_DATIGNORE), LF)) IN
  {IF l[1] = SEP THEN l ELSE <<"*", "*", "/">> \o l : l \in Range(lines)}
    \cup {<<"/", ".", "g", "i", "t">>, <<"/", ".", "d", "a", "t">>}

\* C6: no entry that listChangedFiles returns without paths has a path that a
\* rule of the compiled rule set matches.
C6_IgnoredNeverListed ==
  \A p \in procs :
    LET c == calls[p] IN
    (c.op = "listChangedFiles" /\ c.pc = "done" /\ ~c.opts.hasPaths) =>
      \A i \in 1..Len(c.result) :
        \A r \in ClaimedRules(local) : ~GlobMatch(r, c.result[i].path)

\* a list without paths has returned entries while a path matched by a line of
\* the .datignore differs and the .git directory is on one side only
C6_Witness ==
  \E p \in procs :
    LET c == calls[p] IN
    /\ c.op = "listChangedFiles" /\ c.pc = "done" /\ ~c.opts.hasPaths
    /\ c.result # <<>>
    /\ local[P_GIT] # archive[P_GIT]
    /\ \E q \in Paths \ {P_GIT} :
         /\ \E r \in ClaimedRules(local) : GlobMatch(r, q)
         /\ local[q] # archive[q]

\* the segments of a path
Segs(path) == FilterBoolean(Split(Normalize(path), SEP))

IsPrefix(a, b) == Len(a) <= Len(b) /\ SubSeq(b, 1, Len(a)) = a

\* the scope of a target as the claim words it: the target itself, what lies
\* under a target that ends with the separator, and the directories above it
InClaimedScope(target, filepath) ==
  LET ts == Segs(target)
      fs == Segs(filepath)
  IN \/ fs = ts
     \/ EndsWith(target, <<SEP>>) /\ IsPrefix(ts, fs)
     \/ IsPrefix(fs, ts) /\ Len(fs) < Len(ts)

\* what the diff without any filter holds, with the options of the call
Unfiltered(c) ==
  dft_diff(local, archive,
           [filter |-> NoFilter, shallow |-> c.opts.shallow,
            compareContent |-> c.opts.compareContent])

\* C7 as claimed: with paths given (such as "d/"), listChangedFiles returns
\* exactly the changes whose path is a target, lies under a target that ends
\* with the separator, or is a directory above a target.
C7_ScopeAsClaimed ==
  \A p \in procs :
    LET c == calls[p] IN
    (c.op = "listChangedFiles" /\ c.pc = "done" /\ c.opts.hasPaths) =>
      c.result = SelectSeq(Unfiltered(c), LAMBDA e:
                   \E i \in 1..Len(c.opts.paths) : InClaimedScope(c.opts.paths[i], e.path))

\* the paths of a diff start at the root of the tree, with the separator
Rooted(target) == StartsWith(target, <<SEP>>)

\* C7 as amended: the same, for targets written as the paths of a diff are,
\* from the root with a leading separator (such as "/d/"); a target without
\* it matches no path.
C7_ScopeOfRootedTargets ==
  \A p \in procs :
    LET c == calls[p] IN
    (c.op = "listChangedFiles" /\ c.pc = "done" /\ c.opts.hasPaths) =>
      c.result = SelectSeq(Unfiltered(c), LAMBDA e:
                   \E i \in 1..Len(c.opts.paths) :
                     /\ Rooted(c.opts.paths[i])
                     /\ InClaimedScope(c.opts.paths[i], e.path))

\* a list scoped to a file has returned the change of that file, below a
\* directory both trees hold, and has left out a change outside the scope
C7_Witness ==
  \E p \in procs :
    LET c == calls[p] IN
    /\ c.op = "listChangedFiles" /\ c.pc = "done"
    /\ c.opts.paths = <<P_DX, P_T>>
    /\ \E i \in 1..Len(c.result) : c.result[i].path = P_DX
    /\ Len(c.result) < Len(Unfiltered(c))

\* C8: a diff of a file whose name says binary (such as p.png), called with
\* a valid profile id and a valid name, fails with an InvalidEncodingError
\* whatever the trees hold, before the workspace record is validated and
\* without any request to either tree.
C8_BinaryNameFailsWithoutIO ==
  \A p \in procs :
    LET c == calls[p] IN
    ( /\ c.op = "diff"
      /\ isFileNameBinary(c.filepath) = "true"
      /\ assertValidProfileId(c.in.profileId) = NoErr
      /\ assertValidName(c.in.name) = NoErr ) =>
      /\ c.pc = "failed"
      /\ c.err.kind = "InvalidEncodingError"
      /\ c.acq = "none"
      /\ Untouched(c)

\* a diff of p.png has been asked for a workspace that has no record, while
\* the folder holds the file and the archive does not
C8_Witness ==
  \E p \in procs :
    LET c == calls[p] IN
    /\ c.op = "diff" /\ c.filepath = P_PNG
    /\ c.in.ws = WS_NONE
    /\ c.err.kind = "InvalidEncodingError"
    /\ local[P_PNG].type = "file" /\ archive[P_PNG].type = "none"

\* the content of a path is text: not a file whose content has a NUL
IsText(fs, filepath) ==
  ~(stat(fs, filepath).type = "file" /\ isFileContentBinary(fs, filepath))

\* the size of a file is 100001 bytes or more
Oversize(fs, filepath) ==
  stat(fs, filepath).type = "file" /\ stat(fs, filepath).size >= 100001

\* the positions of the requests of a kind in the requests of a call
IoAt(c, op) == {i \in 1..Len(c.io) : c.io[i].op = op}

\* C9: a diff that got both trees, of a path whose name does not say binary
\* and that is text on both sides, fails with a SourceTooLargeError and reads
\* no content when either side is 100001 bytes or more; otherwise (a side of
\* exactly 100000 bytes included) it returns the line diff of the two
\* contents, and reads them only after the size of each side is looked up.
C9_SizeCeiling ==
  \A p \in procs :
    LET c == calls[p] IN
    ( /\ c.op = "diff" /\ c.acq = "resolved" /\ Ended(c)
      /\ IsText(local, c.filepath) /\ IsText(archive, c.filepath) ) =>
      IF Oversize(local, c.filepath) \/ Oversize(archive, c.filepath)
        THEN /\ c.pc = "failed"
             /\ c.err.kind = "SourceTooLargeError"
             /\ IoAt(c, "readFile") = {}
        ELSE /\ c.pc = "done"
             /\ c.result = diffLines(readFile(archive, c.filepath),
                                     readFile(local, c.filepath))
             /\ Cardinality(IoAt(c, "stat")) = 2
             /\ Cardinality(IoAt(c, "readFile")) = 2
             /\ \A i \in IoAt(c, "stat") : \A j \in IoAt(c, "readFile") : i < j

\* a diff has returned for a file that has exactly 100000 bytes in the
\* archive and differs in the folder
C9_Witness ==
  \E p \in procs :
    LET c == calls[p] IN
    /\ c.op = "diff" /\ c.pc = "done"
    /\ archive[c.filepath].type = "file" /\ archive[c.filepath].size = 100000
    /\ local[c.filepath].type = "file" /\ local[c.filepath] # archive[c.filepath]

RECURSIVE ApplyAll(_, _, _, _)
\* the destination after the entries are applied one after the other
ApplyAll(src, dst, direction, entries) ==
  IF entries = <<>> THEN dst
  ELSE ApplyAll(src,
                Applied(src, dst, EntryOp(direction, Head(entries)), Head(entries).path),
                direction, Tail(entries))

\* the positions of the requests of a call that a tree did not carry out
IoFailures(c) == {i \in 1..Len(c.io) : ~c.io[i].ok}

\* C10: when the k-th entry of a publish or revert is not carried out, the
\* call fails with an error that names the path of that entry, no request
\* follows the failed one, the destination holds the effects of the entries
\* 1..k-1 and nothing else, and the source is as it was.
C10_ApplyStopsNoRollback ==
  \A p \in procs :
    LET c == calls[p]
        toArchive == DstSide(c.op) = "archive"
        src == IF toArchive THEN c.preLocal ELSE c.preArchive
        dst == IF toArchive THEN c.preArchive ELSE c.preLocal
        after == ApplyAll(src, dst, Direction(c.op), SubSeq(c.queue, 1, c.applied))
    IN (c.op \in {"publish", "revert"} /\ IoFailures(c) # {}) =>
         /\ c.pc = "failed"
         /\ c.err.kind = "IOError"
         /\ c.err.what = c.queue[c.applied + 1].path
         /\ IoFailures(c) = {Len(c.io)}
         /\ c.io[Len(c.io)].path = c.err.what
         /\ (IF toArchive THEN archive ELSE local) = after
         /\ (IF toArchive THEN local ELSE archive) = src

\* an entry has failed after an earlier one has changed the destination, with
\* more entries left
C10_Witness ==
  \E p \in procs :
    LET c == calls[p] IN
    /\ c.op \in {"publish", "revert"} /\ IoFailures(c) # {}
    /\ c.applied >= 1
    /\ c.applied + 1 < Len(c.queue)
    /\ (IF c.op = "publish" THEN archive # c.preArchive ELSE local # c.preLocal)

\* ------------------------------------------------------------ two callers
\* Two callers publish and revert the same workspace at the same time.
RaceTrees ==
  { MkTree(NoNode, NoNode, DirNode, TXT1, NoNode, TXT1),
    MkTree(NoNode, NoNode, DirNode, TXT2, NoNode, TXT2) }

InitRace ==
  /\ local \in RaceTrees
  /\ archive \in RaceTrees
  /\ calls = [p \in AllProcs |-> IdleCall]
  /\ streams = <<>>
  /\ ncalls = [p \in AllProcs |-> 0]
  /\ procs = AllProcs

NextRace ==
  \E p \in AllProcs :
    \/ publishOf(p, {<<GoodIn, NoOpts>>})
    \/ revertOf(p, {<<GoodIn, NoOpts>>})
    \/ Acquire(p)
    \/ LateResolve(p)
    \/ RunDiff(p)
    \/ ApplyStep(p)

SpecRace == InitRace /\ [][NextRace]_vars

\* ------------------------------------------------------------ watchers
\* Two callers watch the same folder.
WatchTree == MkTree(NoNode, NoNode, DirNode, TXT1, NoNode, TXT1)

InitWatch ==
  /\ local = WatchTree
  /\ archive = WatchTree
  /\ calls = [p \in AllProcs |-> IdleCall]
  /\ streams = <<>>
  /\ ncalls = [p \in AllProcs |-> 0]
  /\ procs = AllProcs

NextWatch ==
  \/ \E p \in AllProcs : watchOf(p, {GoodIn})
  \/ Notify
  \/ Close

SpecWatch == InitWatch /\ [][NextWatch]_vars

MutatingOps == {"publish", "revert", "setupFolder", "addToDatignore"}

\* C11: when the folder of the record is not a directory on disk, get returns
\* the record with localFilesPathIsMissing set instead of failing, and
\* publish, revert, setupFolder and addToDatignore end with an error and with
\* both trees as they were.
C11_MissingFolder ==
  \A p \in procs :
    LET c == calls[p] IN
    (Ended(c) /\ c.op # "none" /\ ~c.in.dir /\ c.in.ws = WS_OK /\ c.in.reg = REG_OK) =>
      /\ (c.op = "get" /\ getChecks(c.in) = NoErr) =>
           /\ c.pc = "done"
           /\ Len(c.result) = 1
           /\ c.result[1].localFilesPathIsMissing
      /\ c.op \in MutatingOps =>
           /\ c.pc = "failed"
           /\ local = c.preLocal
           /\ archive = c.preArchive

\* the trees after a call of op alone on <<l, a>>, with no options and no fault
Alone(op, l, a) ==
  LET changes == dft_diff(l, a, [filter |-> IgnoreFilter(readDatIgnore(l)),
                                 shallow |-> FALSE, compareContent |-> TRUE])
      queue == ApplyOrder(Direction(op), changes)
  IN IF op = "publish" THEN <<l, ApplyAll(l, a, "right", queue)>>
     ELSE <<ApplyAll(a, l, "left", queue), a>>

\* the trees after op1 and then op2, one after the other
OneAfterTheOther(op1, op2, l, a) ==
  LET mid == Alone(op1, l, a) IN Alone(op2, mid[1], mid[2])

\* C12: nothing serializes the calls on one workspace: whenever two calls are
\* both between their diff and the end of their apply, neither is held back:
\* each of the two may take its next step.
C12_NoLock ==
  \A p \in procs : \A q \in procs \ {p} :
    (calls[p].pc \in {"diff", "apply"} /\ calls[q].pc \in {"diff", "apply"}) =>
      MayStep(p) /\ MayStep(q)

\* a publish and a revert that started on the same trees have both completed,
\* one has applied a diff computed before a write of the other, and the trees
\* are those of neither order of the two calls one after the other
C12_Witness ==
  \E p \in procs : \E q \in procs \ {p} :
    LET c == calls[p]
        d == calls[q]
    IN /\ c.op = "publish" /\ d.op = "revert"
       /\ c.pc = "done" /\ d.pc = "done"
       /\ c.preLocal = d.preLocal /\ c.preArchive = d.preArchive
       /\ c.changes = d.changes /\ Len(c.changes) >= 2
       /\ <<local, archive>> # OneAfterTheOther("publish", "revert", c.preLocal, c.preArchive)
       /\ <<local, archive>> # OneAfterTheOther("revert", "publish", c.preLocal, c.preArchive)

\* the events of the notifications a subscription heard
AsEvents(paths) == [k \in 1..Len(paths) |-> [path |-> paths[k]]]

\* C13: a stream carries one {path} event for each notification its
\* subscription heard while it was open, with the same path and in the order
\* of arrival; nothing is merged or dropped, also not a path that repeats.
C13_StreamRepublishes ==
  \A i \in 1..Len(streams) :
    LET st == streams[i]
        n == IF st.open THEN Len(st.heard) ELSE st.closedAt
    IN st.events = AsEvents(SubSeq(st.heard, 1, n))

\* an open stream has carried two events for the same path
C13_Witness ==
  \E i \in 1..Len(streams) :
    /\ streams[i].open
    /\ streams[i].events = <<[path |-> P_T], [path |-> P_T]>>

\* C14: a closed stream has had its own stopwatch called, once, and the close
\* has raised nothing, also when stopwatch threw; every stream that is still
\* open is subscribed and has heard all the tree has notified since it was
\* made, whatever other streams were closed meanwhile.
C14_WatchTeardown ==
  \A i \in 1..Len(streams) :
    LET st == streams[i] IN
    /\ ~st.open => st.stopped = 1 /\ ~st.raised
    /\ st.open => /\ st.stopped = 0
                  /\ st.subscribed
                  /\ st.heard = st.sent

\* one stream was closed with a stopwatch that threw, and the other stream,
\* still open, has carried a notification that came after that
C14_Witness ==
  \E i, j \in 1..Len(streams) :
    /\ ~streams[i].open /\ streams[i].subscribed
    /\ streams[j].open
    /\ Len(streams[j].events) > streams[i].closedAt
    /\ Len(streams[i].sent) > streams[i].closedAt

\* the lines given, each ended by a newline
Terminated(lines) == Flatten([k \in 1..Len(lines) |-> Append(lines[k], LF)])

\* no line of the text is empty: between two newlines, and before the first,
\* there is something
NoBlankLine(text) ==
  \A k \in 1..Len(text) : text[k] = LF => (k > 1 /\ text[k - 1] # LF)

\* C15: addToDatignore with a non-empty string leaves the .datignore made of
\* the non-empty lines it had, in their order, followed by the line, every
\* line ended by a newline and no blank line left; a file that is absent or
\* cannot be read counts as empty; an empty or non-string line is rejected
\* and the file is as it was.
C15_AddIgnoreLine ==
  \A p \in procs :
    LET c == calls[p]
        before == IF c.io # <<>> /\ ~c.io[1].ok THEN <<>>
                  ELSE readFile(c.preLocal, REL_DATIGNORE)
        after == readFile(local, REL_DATIGNORE)
    IN (c.op = "addToDatignore" /\ Ended(c) /\ ~PreconditionFails(c.in)) =>
         IF c.line.t = "string" /\ c.line.s # <<>>
           THEN /\ c.pc = "done"
                /\ after = Terminated(Append(FilterBoolean(Split(before, LF)), c.line.s))
                /\ NoBlankLine(after)
           ELSE /\ c.pc = "failed"
                /\ local = c.preLocal

\* the content sniff says binary, for a name that does not tell
BinaryBySniff(fs, filepath) ==
  /\ isFileNameBinary(filepath) = "undefined"
  /\ stat(fs, filepath).type = "file"
  /\ isFileContentBinary(fs, filepath)

\* a diff call that has got both trees and has ended
DiffRan(c) == c.op = "diff" /\ c.acq = "resolved" /\ Ended(c)

\* a diff call, with a valid profile id and name, of a file that is binary by
\* its name, or that has got both trees and finds a copy binary by its content
BinaryCase(c) ==
  \/ /\ c.op = "diff"
     /\ assertValidProfileId(c.in.profileId) = NoErr
     /\ assertValidName(c.in.name) = NoErr
     /\ isFileNameBinary(c.filepath) = "true"
  \/ /\ DiffRan(c)
     /\ BinaryBySniff(local, c.filepath) \/ BinaryBySniff(archive, c.filepath)

RefusedAsBinary(c) ==
  /\ c.pc = "failed"
  /\ c.err.kind = "InvalidEncodingError"
  /\ IoAt(c, "readFile") = {}

\* C16 as claimed: a diff of a file that either side classifies as binary
\* fails with an InvalidEncodingError whatever the sizes of the two copies,
\* and reads no content for a line diff.
C16_BinaryEitherSide ==
  \A p \in procs :
    LET c == calls[p] IN
    BinaryCase(c)
      => RefusedAsBinary(c)

\* C16 as amended: the same when the local copy is the binary one, or when
\* the archive copy is and the local copy is not above the ceiling; when the
\* local copy is text above the ceiling and only the archive copy is binary,
\* the diff fails with a SourceTooLargeError instead; no content is read for a
\* line diff in either case.
C16_BinaryBeforeSizePerSide ==
  \A p \in procs :
    LET c == calls[p] IN
    BinaryCase(c)
      => IF ~BinaryBySniff(local, c.filepath) /\ Oversize(local, c.filepath)
           THEN /\ c.pc = "failed"
                /\ c.err.kind = "SourceTooLargeError"
                /\ IoAt(c, "readFile") = {}
           ELSE RefusedAsBinary(c)

\* a diff was refused for the content of the archive copy, the local copy
\* being a text
C16_Witness ==
  \E p \in procs :
    LET c == calls[p] IN
    /\ DiffRan(c) /\ RefusedAsBinary(c)
    /\ BinaryBySniff(archive, c.filepath)
    /\ local[c.filepath].type = "file" /\ ~BinaryBySniff(local, c.filepath)

\* the diff of the trees a call started on, under its filter and its
\* compareContent, with the shallow given
DiffWithShallow(c, shallow) ==
  dft_diff(c.preLocal, c.preArchive,
           [filter |-> BuildFilter(c.opts, c.preLocal), shallow |-> shallow,
            compareContent |-> c.opts.compareContent])

\* every entry for a directory on one side only comes with an entry for each
\* path in it that the filter lets through
WithDescendants(c) ==
  \A k \in 1..Len(c.changes) :
    LET e == c.changes[k]
        side == IF e.change = "add" THEN c.preLocal ELSE c.preArchive
    IN (e.type = "dir" /\ e.change \in {"add", "del"}) =>
         \A q \in Paths :
           ( /\ Dirname(q) = e.path
             /\ side[q].type # "none"
             /\ ~Excluded(BuildFilter(c.opts, c.preLocal), q) ) =>
             \E m \in 1..Len(c.changes) :
               c.changes[m].path = q /\ c.changes[m].change = e.change

\* the shallow the caller asked for: the option when it is a boolean, else true
AskedShallow(rawOpts) ==
  IF rawOpts.shallow.t = "boolean" THEN rawOpts.shallow.b ELSE TRUE

DiffingOps == {"listChangedFiles", "publish", "revert"}

\* a call of one of the three operations whose diff has been computed
Diffed(c) ==
  /\ c.op \in DiffingOps
  /\ c.pc \in {"apply", "done"} \/ (c.pc = "failed" /\ IoFailures(c) # {})

\* the strings among the paths the caller gave
GivenTargets(rawOpts) ==
  MapSeq(LAMBDA v: v.s, SelectSeq(rawOpts.paths.items, LAMBDA v: v.t = "string"))

\* the diff of the trees a call started on under a given filter, as the call
\* computes it otherwise
DiffUnderFilter(c, filter) ==
  dft_diff(c.preLocal, c.preArchive,
           [filter |-> filter,
            shallow |-> IF c.op = "listChangedFiles" THEN c.opts.shallow ELSE FALSE,
            compareContent |-> c.opts.compareContent])

ReadsDatignore(c) ==
  \E k \in 1..Len(c.io) : c.io[k].op = "readFile" /\ c.io[k].path = P_DATIGNORE

\* C18: one filter per call: with paths given as an array the diff is the one
\* under the path scope alone and the .datignore is not read, so a file that
\* differs, is named by a target and matches an ignore rule is in the diff;
\* without it the diff is the one under the ignore rules alone.
C18_OneFilter ==
  \A p \in procs :
    LET c == calls[p] IN
    Diffed(c) =>
      IF c.rawOpts.paths.t = "array"
        THEN /\ c.changes = DiffUnderFilter(c, PathsFilter(GivenTargets(c.rawOpts)))
             /\ ~ReadsDatignore(c)
             /\ \A q \in Paths :
                  ( /\ c.preLocal[q].type = "file" /\ c.preArchive[q].type = "file"
                    /\ c.preLocal[q] # c.preArchive[q]
                    /\ c.opts.compareContent
                    /\ \E k \in 1..Len(GivenTargets(c.rawOpts)) : GivenTargets(c.rawOpts)[k] = q
                    /\ anymatch(readDatIgnore(c.preLocal), q) ) =>
                    \E m \in 1..Len(c.changes) : c.changes[m].path = q
        ELSE /\ c.changes = DiffUnderFilter(c, IgnoreFilter(readDatIgnore(c.preLocal)))
             /\ ReadsDatignore(c)

\* a publish with targets has copied a file that an ignore rule of the
\* folder's .datignore matches
C18_Witness ==
  \E p \in procs :
    LET c == calls[p] IN
    /\ c.op = "publish" /\ c.pc = "done"
    /\ c.rawOpts.paths.t = "array"
    /\ anymatch(readDatIgnore(c.preLocal), P_DX)
    /\ c.preLocal[P_DX] # c.preArchive[P_DX]
    /\ archive[P_DX] = local[P_DX]
    /\ \E m \in 1..Len(c.changes) : c.changes[m].path = P_DX

WriteOps == {"mkdir", "rmdir", "unlink", "copy", "writeFile"}

\* the filter hides a path when it excludes it or a directory above it
HiddenBy(filter, q) ==
  Excluded(filter, q) \/ (Dirname(q) # ROOT /\ Excluded(filter, Dirname(q)))

\* C19: at every point of a publish, failed or partly applied ones included,
\* the local tree is as it was and every write or delete went to the archive;
\* at every point of a revert the archive is as it was and every write or
\* delete went to the local tree; after a revert, a path the filter lets
\* through that only the folder held is gone from it, and one that only the
\* archive held is in the folder as in the archive.
C19_DirectionFrame ==
  \A p \in procs :
    LET c == calls[p]
        filter == BuildFilter(c.opts, c.preLocal)
    IN /\ c.op = "publish" =>
            /\ local = c.preLocal
            /\ \A k \in 1..Len(c.io) : c.io[k].op \in WriteOps => c.io[k].fs = "archive"
       /\ c.op = "revert" =>
            /\ archive = c.preArchive
            /\ \A k \in 1..Len(c.io) : c.io[k].op \in WriteOps => c.io[k].fs = "local"
       /\ (c.op = "revert" /\ c.pc = "done") =>
            \A q \in Paths :
              ~HiddenBy(filter, q) =>
                /\ (c.preLocal[q].type # "none" /\ c.preArchive[q].type = "none")
                     => local[q].type = "none"
                /\ (c.preLocal[q].type = "none" /\ c.preArchive[q].type # "none")
                     => local[q] = archive[q]

\* a revert has deleted a path only the folder held and created one only the
\* archive held
C19_Witness ==
  \E p \in procs :
    LET c == calls[p]
        filter == BuildFilter(c.opts, c.preLocal)
    IN /\ c.op = "revert" /\ c.pc = "done"
       /\ \E q \in Paths : /\ ~HiddenBy(filter, q)
                           /\ c.preLocal[q].type # "none" /\ c.preArchive[q].type = "none"
                           /\ local[q].type = "none"
       /\ \E q \in Paths : /\ ~HiddenBy(filter, q)
                           /\ c.preLocal[q].type = "none" /\ c.preArchive[q].type # "none"
                           /\ local[q].type # "none"

\* C20: with paths an array that holds no string, the path scope is the filter
\* and lets nothing through: the diff is empty, listChangedFiles returns the
\* empty list, publish and revert end without a write, and the .datignore is
\* not read.
C20_EmptyAllowList ==
  \A p \in procs :
    LET c == calls[p] IN
    ( /\ c.op \in DiffingOps
      /\ c.rawOpts.paths.t = "array" /\ GivenTargets(c.rawOpts) = <<>>
      /\ c.acq = "resolved" /\ c.pc # "diff" ) =>
      /\ c.pc = "done"
      /\ c.changes = <<>> /\ c.result = <<>>
      /\ local = c.preLocal /\ archive = c.preArchive
      /\ ~ReadsDatignore(c)

\* a publish with an empty array of paths has ended on trees that differ under
\* the ignore rules
C20_Witness ==
  \E p \in procs :
    LET c == calls[p] IN
    /\ c.op = "publish" /\ c.pc = "done"
    /\ c.rawOpts.paths = OptArray(<<>>)
    /\ Len(DiffUnderFilter(c, IgnoreFilter(readDatIgnore(local)))) >= 2

====
